---- MODULE Spec2Model ----
(***************************************************************************)
(* Library Management API (src/main.py): members, books, the transaction   *)
(* ledger and the per-book reservation heaps, one action per request       *)
(* handler.  Every handler runs to completion before the next starts.      *)
(*                                                                         *)
(* Time is counted in hours since 2025-08-20 00:00.  Python floats of the  *)
(* priority score are kept exact as a fraction <<numerator, denominator>>  *)
(* of ten times the score.  heapq is CPython's C implementation (_heapq),  *)
(* which appends the item and then sifts it by swapping in place.          *)
(***************************************************************************)
EXTENDS Integers, Sequences, FiniteSets, TLC

\* ---- bounds of the model ------------------------------------------------
MaxTx == 2
MaxSeq == 3
MaxTicks == 1
MaxCalls == 7

\* ---- program constants --------------------------------------------------
TransactionCounterStart == 500
ReservationCounterStart == 0
LoanDays == 14
ReservationLimit == 2
PadWidth == 3
\* datetime(2025, 8, 20, 11, 0, 0) in hours since 2025-08-20 00:00
BorrowedAtFixed == 11
\* datetime(2025, 9, 14) in hours since 2025-08-20 00:00
CURRENT_DATE == 600
HoursPerDay == 24
\* HTTP status codes of the handlers
OK == 200
BadRequest == 400
NotFound == 404
InternalError == 500

\* Python's None where a timestamp is expected
None == -1

\* the ids, names and ages the requests carry
MemberIds == {1, 2}
BookIds == {1, 2}
NewNames == {"n1"}
NewAges == {12}
UpdateNames == {"", "n2"}
UpdateAges == {None, 13}
Titles == {"t1"}

VARIABLES members, books, transactions, reservations,
          transaction_counter, reservation_counter, now, last, calls

store == <<members, books, transactions, reservations,
           transaction_counter, reservation_counter>>
vars == <<members, books, transactions, reservations,
          transaction_counter, reservation_counter, now, last, calls>>

\* ---- helpers ------------------------------------------------------------
Min(S) == CHOOSE x \in S : \A y \in S : x <= y

\* dict with key k set / removed
DictSet(d, k, v) == [x \in DOMAIN d \cup {k} |-> IF x = k THEN v ELSE d[x]]
DictDel(d, k) == [x \in DOMAIN d \ {k} |-> d[x]]

calculate_due_date(borrowed_at) == borrowed_at + LoanDays * HoursPerDay

\* mutant: the difference is taken the wrong way round
calculate_days_overdue_swapped(due_date) ==
    LET days == (due_date - CURRENT_DATE) \div HoursPerDay
    IN IF days > 0 THEN days ELSE 0

\* timedelta.days of CURRENT_DATE - due_date (floor division), then max(0, .)
calculate_days_overdue(due_date) ==
    LET days == (CURRENT_DATE - due_date) \div HoursPerDay
    IN IF days > 0 THEN days ELSE 0

\* mutant: the status compared is the wrong one
find_active_borrow_wrong_status(member_id) ==
    LET S == {i \in DOMAIN transactions :
                 /\ transactions[i].member_id = member_id
                 /\ transactions[i].status = "returned"}
    IN IF S = {} THEN 0 ELSE Min(S)

\* index of the first active transaction of the member, 0 for None
find_active_borrow(member_id) ==
    LET S == {i \in DOMAIN transactions :
                 /\ transactions[i].member_id = member_id
                 /\ transactions[i].status = "active"}
    IN IF S = {} THEN 0 ELSE Min(S)

\* ten times the priority score as a fraction <<num, den>>:
\* frequency*0.3 + punctuality*0.7, punctuality = on_time / len(history)
calculate_priority_score(member_id) ==
    LET history == SelectSeq(transactions, LAMBDA t : t.member_id = member_id)
        frequency == Len(history)
        on_time == Cardinality({i \in DOMAIN history :
                       /\ history[i].returned_at # None
                       /\ history[i].returned_at <= history[i].due_date})
    IN IF frequency = 0 THEN <<0, 1>>
       ELSE <<3 * frequency * frequency + 7 * on_time, frequency>>

\* ---- reservation ids ----------------------------------------------------
Digit(n) == <<"0", "1", "2", "3", "4", "5", "6", "7", "8", "9">>[n + 1]

RECURSIVE Digits(_)
Digits(n) == IF n < 10 THEN <<Digit(n)>> ELSE Digits(n \div 10) \o <<Digit(n % 10)>>

RECURSIVE ZeroPad(_, _)
ZeroPad(s, width) == IF Len(s) >= width THEN s ELSE ZeroPad(<<"0">> \o s, width)

\* calendar date of an instant: the model's instants lie in 2025-08-20 .. 2025-09-30
DateOf(t) ==
    LET d == t \div HoursPerDay
    IN IF d <= 11 THEN [year |-> 2025, month |-> 8, day |-> 20 + d]
       ELSE [year |-> 2025, month |-> 9, day |-> d - 11]

\* reservation_time.strftime('%Y-%m%d')
Strftime(t) ==
    ZeroPad(Digits(DateOf(t).year), 4) \o <<"-">>
      \o ZeroPad(Digits(DateOf(t).month), 2) \o ZeroPad(Digits(DateOf(t).day), 2)

\* mutant: the sequence number restarts with every creation date
get_next_reservation_id_daily(reservation_time, counter) ==
    LET same_day == {b \in DOMAIN reservations : \E i \in DOMAIN reservations[b] :
                        DateOf(reservations[b][i].res.created_at) = DateOf(reservation_time)}
        today == IF same_day = {} THEN 1 ELSE counter
    IN <<"R", "E", "S", "-">> \o Strftime(reservation_time) \o <<"-">>
         \o ZeroPad(Digits(today), PadWidth)

\* f"RES-{...}-{reservation_counter:03d}" with the counter already incremented
get_next_reservation_id(reservation_time, counter) ==
    <<"R", "E", "S", "-">> \o Strftime(reservation_time) \o <<"-">>
      \o ZeroPad(Digits(counter), PadWidth)

\* ---- heapq on tuples (-priority_score, timestamp, res_dict) -------------
RatLt(a, b) == a[1] * b[2] < b[1] * a[2]
RatEq(a, b) == a[1] * b[2] = b[1] * a[2]

\* Python's tuple '<': the first differing component decides; two dicts that
\* differ cannot be ordered and raise TypeError
TupleLtRaises(x, y) == /\ RatEq(x.neg_score, y.neg_score)
                       /\ x.ts = y.ts
                       /\ x.res # y.res
TupleLt(x, y) == \/ RatLt(x.neg_score, y.neg_score)
                 \/ RatEq(x.neg_score, y.neg_score) /\ x.ts < y.ts

Swap(heap, i, j) == [heap EXCEPT ![i] = heap[j], ![j] = heap[i]]

\* _heapq siftdown(heap, 0, pos) with 0-based pos; the item at pos moves up
\* while it is smaller than its parent; a failed comparison leaves the heap
\* as it is at that moment
RECURSIVE siftdown(_, _)
siftdown(heap, pos) ==
    IF pos <= 0 THEN [heap |-> heap, raised |-> FALSE]
    ELSE LET parentpos == (pos - 1) \div 2
             newitem == heap[pos + 1]
             parent == heap[parentpos + 1]
         IN IF TupleLtRaises(newitem, parent)
              THEN [heap |-> heap, raised |-> TRUE]
            ELSE IF TupleLt(newitem, parent)
              THEN siftdown(Swap(heap, pos + 1, parentpos + 1), parentpos)
            ELSE [heap |-> heap, raised |-> FALSE]

\* mutant: the item is appended to the list and not sifted
heappush_append_only(heap, item) == [heap |-> Append(heap, item), raised |-> FALSE]

heappush(heap, item) == siftdown(Append(heap, item), Len(heap))

\* ---- results ------------------------------------------------------------
Result(op, m, b, status, detail) ==
    [op |-> op, member_id |-> m, book_id |-> b, status |-> status,
     detail |-> detail, queue_position |-> 0, body |-> << >>]

\* except Exception as e: raise HTTPException(500, ...) around a handler body:
\* HTTPException is an Exception, so the 404 and 400 raised inside are caught
CatchAll(status) == IF status = OK THEN OK ELSE InternalError

Init ==
    /\ members = << >>
    /\ books = << >>
    /\ transactions = << >>
    /\ reservations = << >>
    /\ transaction_counter = TransactionCounterStart
    /\ reservation_counter = ReservationCounterStart
    /\ now = calculate_due_date(BorrowedAtFixed)
    /\ last = Result("none", 0, 0, OK, "none")
    /\ calls = 0

\* ---- the clock ----------------------------------------------------------
\* instants utcnow() may show: the due date of a loan (the last instant of an
\* on-time return), and whole days after it
Instant(i) == calculate_due_date(BorrowedAtFixed) + HoursPerDay * i
Instants == {Instant(i) : i \in 0..MaxTicks}

Tick ==
    /\ \E t \in Instants : t > now /\ now' = t
    /\ UNCHANGED <<store, last, calls>>

\* ---- Q1: create member --------------------------------------------------
create_member(member_id, name, age) ==
    /\ IF member_id \in DOMAIN members
         THEN /\ last' = Result("create_member", member_id, 0, BadRequest, "already exists")
              /\ UNCHANGED members
         ELSE /\ members' = DictSet(members, member_id,
                               [name |-> name, age |-> age, has_borrowed |-> FALSE])
              /\ last' = Result("create_member", member_id, 0, OK, "ok")
    /\ UNCHANGED <<books, transactions, reservations, transaction_counter,
                   reservation_counter, now>>

\* ---- Q4: update member --------------------------------------------------
\* name "" stands for an omitted or empty name, age None for an omitted age
update_member(member_id, name, age) ==
    /\ IF member_id \notin DOMAIN members
         THEN /\ last' = Result("update_member", member_id, 0, NotFound, "member not found")
              /\ UNCHANGED members
         ELSE /\ members' = [members EXCEPT
                    ![member_id].name = IF name # "" THEN name ELSE @,
                    ![member_id].age = IF age # None THEN age ELSE @]
              /\ last' = Result("update_member", member_id, 0, OK, "ok")
    /\ UNCHANGED <<books, transactions, reservations, transaction_counter,
                   reservation_counter, now>>

\* ---- Q5: borrow ---------------------------------------------------------
\* mutant: the check of the member's active loan is missing
borrow_checks_skip_active(member_id, book_id) ==
    IF member_id \notin DOMAIN members THEN <<NotFound, "member not found">>
    ELSE IF book_id \notin DOMAIN books THEN <<NotFound, "book not found">>
    ELSE IF ~books[book_id].is_available THEN <<BadRequest, "not available">>
    ELSE <<OK, "ok">>

\* mutant: the check of the book's availability is missing
borrow_checks_skip_available(member_id, book_id) ==
    IF member_id \notin DOMAIN members THEN <<NotFound, "member not found">>
    ELSE IF book_id \notin DOMAIN books THEN <<NotFound, "book not found">>
    ELSE IF find_active_borrow(member_id) # 0 THEN <<BadRequest, "already borrowed">>
    ELSE <<OK, "ok">>

\* the HTTPException raised by the checks of lines 202-209, OK when none is
borrow_checks(member_id, book_id) ==
    IF member_id \notin DOMAIN members THEN <<NotFound, "member not found">>
    ELSE IF book_id \notin DOMAIN books THEN <<NotFound, "book not found">>
    ELSE IF find_active_borrow(member_id) # 0 THEN <<BadRequest, "already borrowed">>
    ELSE IF ~books[book_id].is_available THEN <<BadRequest, "not available">>
    ELSE <<OK, "ok">>

\* mutant: the counter is returned without being incremented
get_next_transaction_id_stale == transaction_counter

get_next_transaction_id == transaction_counter + 1

borrow_book(member_id, book_id) ==
    LET raised == borrow_checks(member_id, book_id)
    IN /\ IF raised[1] # OK
            THEN /\ last' = Result("borrow", member_id, book_id,
                                   CatchAll(raised[1]), raised[2])
                 /\ UNCHANGED store
            ELSE /\ Len(transactions) < MaxTx
                 /\ transaction_counter' = get_next_transaction_id
                 /\ transactions' = Append(transactions,
                       [transaction_id |-> get_next_transaction_id,
                        member_id |-> member_id,
                        book_id |-> book_id,
                        borrowed_at |-> BorrowedAtFixed,
                        returned_at |-> None,
                        status |-> "active",
                        due_date |-> calculate_due_date(BorrowedAtFixed)])
                 /\ members' = [members EXCEPT ![member_id].has_borrowed = TRUE]
                 /\ books' = [books EXCEPT ![book_id].is_available = FALSE]
                 /\ last' = Result("borrow", member_id, book_id, OK, "ok")
                 /\ UNCHANGED <<reservations, reservation_counter>>
       /\ UNCHANGED now

\* ---- Q6: return ---------------------------------------------------------
\* mutant: the book id is not compared
find_active_match_any_book(member_id, book_id) ==
    LET S == {i \in DOMAIN transactions :
                 /\ transactions[i].member_id = member_id
                 /\ transactions[i].status = "active"}
    IN IF S = {} THEN 0 ELSE Min(S)

\* mutant: the status is not compared
find_active_match_any_status(member_id, book_id) ==
    LET S == {i \in DOMAIN transactions :
                 /\ transactions[i].member_id = member_id
                 /\ transactions[i].book_id = book_id}
    IN IF S = {} THEN 0 ELSE Min(S)

\* index of the first active transaction matching both ids, 0 for None
find_active_match(member_id, book_id) ==
    LET S == {i \in DOMAIN transactions :
                 /\ transactions[i].member_id = member_id
                 /\ transactions[i].book_id = book_id
                 /\ transactions[i].status = "active"}
    IN IF S = {} THEN 0 ELSE Min(S)

\* a missing members[...] or books[...] key raises KeyError after the
\* transaction was already marked: the framework answers 500
return_book(member_id, book_id) ==
    LET active == find_active_match(member_id, book_id)
        marked == [transactions EXCEPT ![active].returned_at = now,
                                       ![active].status = "returned"]
    IN /\ IF active = 0
            THEN /\ last' = Result("return", member_id, book_id, BadRequest, "not borrowed")
                 /\ UNCHANGED <<members, books, transactions>>
            ELSE /\ transactions' = marked
                 /\ IF member_id \notin DOMAIN members
                      THEN /\ last' = Result("return", member_id, book_id,
                                             InternalError, "KeyError")
                           /\ UNCHANGED <<members, books>>
                      ELSE /\ members' = [members EXCEPT ![member_id].has_borrowed = FALSE]
                           /\ IF book_id \notin DOMAIN books
                                THEN /\ last' = Result("return", member_id, book_id,
                                                       InternalError, "KeyError")
                                     /\ UNCHANGED books
                                ELSE /\ books' = [books EXCEPT ![book_id].is_available = TRUE]
                                     /\ last' = Result("return", member_id, book_id, OK, "ok")
       /\ UNCHANGED <<reservations, transaction_counter, reservation_counter, now>>

\* ---- Q9: delete member --------------------------------------------------
delete_member(member_id) ==
    /\ IF member_id \notin DOMAIN members
         THEN /\ last' = Result("delete_member", member_id, 0, NotFound, "member not found")
              /\ UNCHANGED members
         ELSE IF find_active_borrow(member_id) # 0
         THEN /\ last' = Result("delete_member", member_id, 0, BadRequest, "active borrowing")
              /\ UNCHANGED members
         ELSE /\ members' = DictDel(members, member_id)
              /\ last' = Result("delete_member", member_id, 0, OK, "ok")
    /\ UNCHANGED <<books, transactions, reservations, transaction_counter,
                   reservation_counter, now>>

\* ---- Q11: add book ------------------------------------------------------
add_book(book_id, title) ==
    /\ IF book_id \in DOMAIN books
         THEN /\ last' = Result("add_book", 0, book_id, BadRequest, "already exists")
              /\ UNCHANGED books
         ELSE /\ books' = DictSet(books, book_id, [title |-> title, is_available |-> TRUE])
              /\ last' = Result("add_book", 0, book_id, OK, "ok")
    /\ UNCHANGED <<members, transactions, reservations, transaction_counter,
                   reservation_counter, now>>

\* ---- Q15: delete book ---------------------------------------------------
\* mutant: the status is not compared
find_active_for_book_any_status(book_id) ==
    LET S == {i \in DOMAIN transactions : transactions[i].book_id = book_id}
    IN IF S = {} THEN 0 ELSE Min(S)

\* mutant: the status compared is the wrong one
find_active_for_book_wrong_status(book_id) ==
    LET S == {i \in DOMAIN transactions :
                 /\ transactions[i].book_id = book_id
                 /\ transactions[i].status = "returned"}
    IN IF S = {} THEN 0 ELSE Min(S)

\* index of the first active transaction of the book, 0 for None
find_active_for_book(book_id) ==
    LET S == {i \in DOMAIN transactions :
                 /\ transactions[i].book_id = book_id
                 /\ transactions[i].status = "active"}
    IN IF S = {} THEN 0 ELSE Min(S)

\* mutant: deleting a book also drops its reservation queue
delete_book_drops_queue(book_id) ==
    /\ IF book_id \notin DOMAIN books
         THEN /\ last' = Result("delete_book", 0, book_id, NotFound, "book not found")
              /\ UNCHANGED <<books, reservations>>
         ELSE IF find_active_for_book(book_id) # 0
         THEN /\ last' = Result("delete_book", 0, book_id, BadRequest, "currently borrowed")
              /\ UNCHANGED <<books, reservations>>
         ELSE /\ books' = DictDel(books, book_id)
              /\ reservations' = DictDel(reservations, book_id)
              /\ last' = Result("delete_book", 0, book_id, OK, "ok")
    /\ UNCHANGED <<members, transactions, transaction_counter, reservation_counter, now>>

delete_book(book_id) ==
    /\ IF book_id \notin DOMAIN books
         THEN /\ last' = Result("delete_book", 0, book_id, NotFound, "book not found")
              /\ UNCHANGED books
         ELSE IF find_active_for_book(book_id) # 0
         THEN /\ last' = Result("delete_book", 0, book_id, BadRequest, "currently borrowed")
              /\ UNCHANGED books
         ELSE /\ books' = DictDel(books, book_id)
              /\ last' = Result("delete_book", 0, book_id, OK, "ok")
    /\ UNCHANGED <<members, transactions, reservations, transaction_counter,
                   reservation_counter, now>>

\* ---- Q14: create reservation --------------------------------------------
\* the (book, index) places of all queue entries
QueueSlots == UNION {{<<b, i>> : i \in DOMAIN reservations[b]} : b \in DOMAIN reservations}

\* sum(1 for q in reservations.values() for r in q if r[2]["member_id"] == member_id)
active_res(member_id) ==
    Cardinality({p \in QueueSlots : reservations[p[1]][p[2]].res.member_id = member_id})

\* mutant: the limit is compared with > instead of >=
reservation_checks_off_by_one(member_id, book_id) ==
    IF book_id \notin DOMAIN books THEN <<NotFound, "book not found">>
    ELSE IF member_id \notin DOMAIN members THEN <<NotFound, "member not found">>
    ELSE IF active_res(member_id) > ReservationLimit THEN <<BadRequest, "reservation limit">>
    ELSE <<OK, "ok">>

\* the HTTPException raised by the checks of lines 411-439, OK when none is
reservation_checks(member_id, book_id) ==
    IF book_id \notin DOMAIN books THEN <<NotFound, "book not found">>
    ELSE IF member_id \notin DOMAIN members THEN <<NotFound, "member not found">>
    ELSE IF active_res(member_id) >= ReservationLimit THEN <<BadRequest, "reservation limit">>
    ELSE <<OK, "ok">>

\* next(i+1 for i, item in enumerate(queue) if item's reservation_id matches, 0)
position_of(queue, reservation_id) ==
    LET S == {i \in DOMAIN queue : queue[i].res.reservation_id = reservation_id}
    IN IF S = {} THEN 0 ELSE Min(S)

create_reservation(member_id, book_id) ==
    LET raised == reservation_checks(member_id, book_id)
        priority_score == calculate_priority_score(member_id)
        reservation_time == now
        reservation_id == get_next_reservation_id(reservation_time, reservation_counter + 1)
        res_dict == [reservation_id |-> reservation_id,
                     member_id |-> member_id,
                     book_id |-> book_id,
                     status |-> "queued",
                     created_at |-> reservation_time]
        item == [neg_score |-> <<0 - priority_score[1], priority_score[2]>>,
                 ts |-> reservation_time,
                 res |-> res_dict]
        old == IF book_id \in DOMAIN reservations THEN reservations[book_id] ELSE << >>
        pushed == heappush(old, item)
    IN /\ IF raised[1] # OK
            THEN /\ last' = Result("create_reservation", member_id, book_id,
                                   CatchAll(raised[1]), raised[2])
                 /\ UNCHANGED <<reservations, reservation_counter>>
            ELSE /\ reservation_counter < MaxSeq
                 /\ reservation_counter' = reservation_counter + 1
                 /\ reservations' = DictSet(reservations, book_id, pushed.heap)
                 /\ IF pushed.raised
                      THEN last' = Result("create_reservation", member_id, book_id,
                                          CatchAll(InternalError), "TypeError")
                      ELSE last' = [Result("create_reservation", member_id, book_id, OK, "ok")
                                      EXCEPT !.queue_position =
                                                position_of(pushed.heap, reservation_id)]
       /\ UNCHANGED <<members, books, transactions, transaction_counter, now>>

\* ---- Q10: overdue books -------------------------------------------------
\* members.get(id, {}).get("name", "Unknown")
member_name(member_id) ==
    IF member_id \in DOMAIN members THEN members[member_id].name ELSE "Unknown"
book_title(book_id) ==
    IF book_id \in DOMAIN books THEN books[book_id].title ELSE "Unknown"

overdue_entry(t) ==
    [transaction_id |-> t.transaction_id,
     member_id |-> t.member_id,
     member_name |-> member_name(t.member_id),
     book_id |-> t.book_id,
     book_title |-> book_title(t.book_id),
     borrowed_at |-> t.borrowed_at,
     due_date |-> t.due_date,
     days_overdue |-> calculate_days_overdue(t.due_date)]

\* the entries appended in ledger order by the loop of lines 298-310
RECURSIVE overdue_list(_)
overdue_list(txs) ==
    IF txs = << >> THEN << >>
    ELSE LET t == Head(txs)
         IN (IF t.status = "active" /\ CURRENT_DATE > t.due_date
               THEN <<overdue_entry(t)>> ELSE << >>) \o overdue_list(Tail(txs))

get_overdue ==
    /\ last' = [Result("overdue", 0, 0, OK, "ok") EXCEPT !.body = overdue_list(transactions)]
    /\ UNCHANGED <<store, now>>

\* one request served: the handlers run one at a time, each to completion
Request(Handler) ==
    /\ calls < MaxCalls
    /\ calls' = calls + 1
    /\ Handler

Next ==
    \/ Tick
    \/ \E m \in MemberIds, n \in NewNames, a \in NewAges : Request(create_member(m, n, a))
    \/ \E m \in MemberIds, n \in UpdateNames, a \in UpdateAges :
          Request(update_member(m, n, a))
    \/ \E m \in MemberIds : Request(delete_member(m))
    \/ \E b \in BookIds, t \in Titles : Request(add_book(b, t))
    \/ \E b \in BookIds : Request(delete_book(b))
    \/ \E m \in MemberIds, b \in BookIds : Request(borrow_book(m, b))
    \/ \E m \in MemberIds, b \in BookIds : Request(return_book(m, b))
    \/ \E m \in MemberIds, b \in BookIds : Request(create_reservation(m, b))
    \/ Request(get_overdue)

Spec == Init /\ [][Next]_vars

\* ==== properties =========================================================
ActiveOfMember(m) == {i \in DOMAIN transactions :
                         transactions[i].member_id = m /\ transactions[i].status = "active"}
ActiveOfBook(b) == {i \in DOMAIN transactions :
                       transactions[i].book_id = b /\ transactions[i].status = "active"}
ActiveOfBoth(m, b) == ActiveOfMember(m) \cap ActiveOfBook(b)
ReservationsOf(m) == {p \in QueueSlots : reservations[p[1]][p[2]].res.member_id = m}

\* the step is one request to the named handler
Served(op) == calls' = calls + 1 /\ last'.op = op

\* C1: every stored member's has_borrowed flag is true exactly when the
\* ledger holds an active transaction of that member
C1_HasBorrowedMatchesLedger ==
    \A m \in DOMAIN members : members[m].has_borrowed <=> ActiveOfMember(m) # {}

\* a member who borrowed, returned and borrowed again: the flag is set again
C1_Witness ==
    /\ last.op = "borrow" /\ last.status = OK
    /\ members[last.member_id].has_borrowed
    /\ \E i \in DOMAIN transactions : /\ transactions[i].member_id = last.member_id
                                      /\ transactions[i].status = "returned"

\* C2: every stored book's is_available flag is true exactly when the ledger
\* holds no active transaction of that book, also for a re-registered book id
C2_IsAvailableMatchesLedger ==
    \A b \in DOMAIN books : books[b].is_available <=> ActiveOfBook(b) = {}

\* a book id that was borrowed, returned, deleted and registered again
C2_Witness ==
    /\ last.op = "add_book" /\ last.status = OK
    /\ books[last.book_id].is_available
    /\ \E i \in DOMAIN transactions : /\ transactions[i].book_id = last.book_id
                                      /\ transactions[i].status = "returned"

\* C3: the ledger holds at most one active transaction per member id and at
\* most one per book id
C3_AtMostOneActive ==
    /\ \A m \in MemberIds : Cardinality(ActiveOfMember(m)) <= 1
    /\ \A b \in BookIds : Cardinality(ActiveOfBook(b)) <= 1

\* two loans are active at once, of different members and books
C3_Witness ==
    /\ last.op = "borrow" /\ last.status = OK
    /\ Cardinality({i \in DOMAIN transactions : transactions[i].status = "active"}) = 2

\* C4: a borrow by a member who has an active loan, for an existing book,
\* fails with Conflict (400) and appends nothing to the ledger
C4_SecondBorrowIsConflict ==
    [][(/\ Served("borrow")
        /\ last'.member_id \in DOMAIN members
        /\ last'.book_id \in DOMAIN books
        /\ ActiveOfMember(last'.member_id) # {})
       => (last'.status = BadRequest /\ transactions' = transactions)]_vars

\* C5: borrow fails with NotFound (404) for an unknown member or book, and
\* with Conflict (400) when both exist, the member has no active loan and the
\* book is not available
C5_BorrowFailureKinds ==
    [][Served("borrow") =>
         LET m == last'.member_id
             b == last'.book_id
         IN /\ (m \notin DOMAIN members \/ b \notin DOMAIN books)
                  => last'.status = NotFound
            /\ (/\ m \in DOMAIN members /\ b \in DOMAIN books
                /\ ActiveOfMember(m) = {} /\ ~books[b].is_available)
                  => last'.status = BadRequest]_vars

\* C6: a request that returns a failure leaves members, books, the ledger,
\* the queues and both counters as they were
C6_FailureChangesNothing ==
    [][(calls' = calls + 1 /\ last'.status # OK) => UNCHANGED store]_vars

\* C7: returnBook fails with Conflict (400) and changes nothing when no active
\* transaction matches both ids; otherwise it marks that one transaction
\* returned, clears the member's flag and makes the book available
C7_ReturnContract ==
    [][Served("return") =>
         LET m == last'.member_id
             b == last'.book_id
         IN IF ActiveOfBoth(m, b) = {}
              THEN last'.status = BadRequest /\ UNCHANGED store
              ELSE /\ last'.status = OK
                   /\ \E i \in ActiveOfBoth(m, b) :
                        transactions' = [transactions EXCEPT ![i].status = "returned",
                                                             ![i].returned_at = now]
                   /\ members' = [members EXCEPT ![m].has_borrowed = FALSE]
                   /\ books' = [books EXCEPT ![b].is_available = TRUE]
                   /\ UNCHANGED <<reservations, transaction_counter, reservation_counter>>]_vars

\* a return refused although the member has an active loan, of another book
C7_Witness ==
    /\ last.op = "return" /\ last.status = BadRequest
    /\ last.book_id \in DOMAIN books
    /\ \E i \in ActiveOfMember(last.member_id) : transactions[i].book_id # last.book_id

\* C8: deleting a member (book) fails with NotFound (404) for an unknown id,
\* fails with Conflict (400) and keeps the record while an active transaction
\* references it, and otherwise removes the record
C8_DeleteContract ==
    [][/\ Served("delete_member") =>
            LET m == last'.member_id
            IN IF m \notin DOMAIN members
                 THEN last'.status = NotFound /\ UNCHANGED store
               ELSE IF ActiveOfMember(m) # {}
                 THEN last'.status = BadRequest /\ UNCHANGED store
               ELSE /\ last'.status = OK
                    /\ members' = DictDel(members, m)
       /\ Served("delete_book") =>
            LET b == last'.book_id
            IN IF b \notin DOMAIN books
                 THEN last'.status = NotFound /\ UNCHANGED store
               ELSE IF ActiveOfBook(b) # {}
                 THEN last'.status = BadRequest /\ UNCHANGED store
               ELSE /\ last'.status = OK
                    /\ books' = DictDel(books, b)]_vars

\* a member deleted after the loan was returned
C8_Witness ==
    /\ last.op = "delete_member" /\ last.status = OK
    /\ last.member_id \notin DOMAIN members
    /\ \E i \in DOMAIN transactions : /\ transactions[i].member_id = last.member_id
                                      /\ transactions[i].status = "returned"

\* C9: createReservation for an existing member and book fails with Conflict
\* (400) when the member already holds 2 or more reservations
C9_ReservationLimitIsConflict ==
    [][(/\ Served("create_reservation")
        /\ last'.member_id \in DOMAIN members
        /\ last'.book_id \in DOMAIN books
        /\ Cardinality(ReservationsOf(last'.member_id)) >= ReservationLimit)
       => last'.status = BadRequest]_vars

\* C10: no member id has more than 2 reservation entries over all queues
C10_AtMostTwoReservations ==
    \A m \in MemberIds : Cardinality(ReservationsOf(m)) <= ReservationLimit

\* a third reservation refused for a member who holds two, in two queues
C10_Witness ==
    /\ last.op = "create_reservation" /\ last.status # OK
    /\ last.member_id \in DOMAIN members /\ last.book_id \in DOMAIN books
    /\ Cardinality(ReservationsOf(last.member_id)) = ReservationLimit
    /\ \E p, q \in ReservationsOf(last.member_id) : p[1] # q[1]

\* ---- reservation queues -------------------------------------------------
Range(q) == {q[i] : i \in DOMAIN q}
QueueOf(rs, b) == IF b \in DOMAIN rs THEN rs[b] ELSE << >>
AllEntries == {reservations[p[1]][p[2]] : p \in QueueSlots}

\* the entries the step added to the queue of book b
Added(b) == Range(QueueOf(reservations', b)) \ Range(QueueOf(reservations, b))

\* x is served before e: a higher score, or the same score and created earlier
Before(x, e) == \/ RatLt(x.neg_score, e.neg_score)
                \/ RatEq(x.neg_score, e.neg_score) /\ x.res.created_at < e.res.created_at

\* C11: the queue_position a successful createReservation returns is the new
\* entry's 1-based rank under (score descending, creation time ascending)
C11_PositionIsSortedRank ==
    [][(Served("create_reservation") /\ last'.status = OK) =>
         \A e \in Added(last'.book_id) :
            last'.queue_position =
               1 + Cardinality({x \in Range(reservations'[last'.book_id]) : Before(x, e)})]_vars

\* ---- priority score -----------------------------------------------------
HistoryOf(m) == {i \in DOMAIN transactions : transactions[i].member_id = m}
ReturnedOf(m) == {i \in HistoryOf(m) : transactions[i].status = "returned"}
OnTimeOf(m) == {i \in ReturnedOf(m) :
                   transactions[i].returned_at <= transactions[i].due_date}

\* C12: ten times the score that keys a new reservation is 3*frequency +
\* 7*punctuality, frequency the number of the member's transactions and
\* punctuality the on-time returns divided by the returned transactions; it
\* is 0 for a member without transactions
C12_ScoreFormula ==
    [][Served("create_reservation") =>
         \A e \in Added(last'.book_id) :
            LET m == e.res.member_id
                f == Cardinality(HistoryOf(m))
                r == Cardinality(ReturnedOf(m))
                k == Cardinality(OnTimeOf(m))
                num == 0 - e.neg_score[1]
                den == e.neg_score[2]
            IN /\ f = 0 => num = 0
               /\ r > 0 => num * r = den * (3 * f * r + 7 * k)]_vars

\* ---- the ledger ---------------------------------------------------------
\* C13: the k-th successful borrow creates transaction id 500 + k and failed
\* borrows consume no id, so the ids of the ledger are unique and strictly
\* increasing in ledger order
C13_TransactionIds ==
    /\ \A k \in DOMAIN transactions :
          transactions[k].transaction_id = TransactionCounterStart + k
    /\ transaction_counter = TransactionCounterStart + Len(transactions)
    /\ \A i, j \in DOMAIN transactions :
          i < j => transactions[i].transaction_id < transactions[j].transaction_id

\* two loans recorded, and then a borrow that failed and took no id
C13_Witness ==
    /\ Len(transactions) = 2
    /\ transactions[2].transaction_id = TransactionCounterStart + 2
    /\ last.op = "borrow" /\ last.status # OK

\* the transactions the step changed
Changed == {i \in DOMAIN transactions : transactions'[i] # transactions[i]}

\* C14: the ledger is append-only: no step removes or reorders an entry, a
\* returned transaction never changes again, returned_at is null exactly
\* while the status is active, and only returnBook changes an entry: its
\* status and returned_at, of the one transaction that matches both ids
C14_LedgerAppendOnly ==
    [][/\ Len(transactions') >= Len(transactions)
       /\ \A i \in DOMAIN transactions :
             LET t == transactions[i]
                 u == transactions'[i]
             IN /\ u.transaction_id = t.transaction_id
                /\ u.member_id = t.member_id
                /\ u.book_id = t.book_id
                /\ u.borrowed_at = t.borrowed_at
                /\ u.due_date = t.due_date
                /\ t.status = "returned" => u = t
       /\ \A i \in DOMAIN transactions' :
             transactions'[i].returned_at = None <=> transactions'[i].status = "active"
       /\ Changed # {} =>
             /\ Served("return")
             /\ Cardinality(Changed) = 1
             /\ \A i \in Changed : /\ transactions[i].member_id = last'.member_id
                                   /\ transactions[i].book_id = last'.book_id
                                   /\ transactions'[i].status = "returned"]_vars

\* both loans of the ledger were returned, the first one is still in place
C14_Witness ==
    /\ last.op = "return" /\ last.status = OK
    /\ Len(transactions) = 2
    /\ \A i \in DOMAIN transactions : /\ transactions[i].status = "returned"
                                      /\ transactions[i].returned_at # None

\* ---- overdue ------------------------------------------------------------
\* the ledger indexes of the active transactions due strictly before D
OverdueIndexes == {i \in DOMAIN transactions :
                      /\ transactions[i].status = "active"
                      /\ transactions[i].due_date < CURRENT_DATE}

\* C15: overdue() returns exactly the active transactions whose due date is
\* strictly before the current instant D, each once, with days_overdue the
\* whole days of D - due_date, never negative
C15_OverdueExact ==
    last.op = "overdue" =>
       /\ {e.transaction_id : e \in Range(last.body)}
             = {transactions[i].transaction_id : i \in OverdueIndexes}
       /\ Len(last.body) = Cardinality(OverdueIndexes)
       /\ \A e \in Range(last.body) :
             /\ e.days_overdue >= 0
             /\ e.days_overdue * HoursPerDay <= CURRENT_DATE - e.due_date
             /\ CURRENT_DATE - e.due_date < (e.days_overdue + 1) * HoursPerDay
             /\ \E i \in OverdueIndexes : /\ transactions[i].transaction_id = e.transaction_id
                                          /\ transactions[i].due_date = e.due_date

\* overdue() listed the active loan and left out the returned one
C15_Witness ==
    /\ last.op = "overdue"
    /\ Len(last.body) = 1
    /\ Len(transactions) = 2
    /\ \E i \in DOMAIN transactions : transactions[i].status = "returned"

\* ---- reservation ids ----------------------------------------------------
IsDigit(c) == \E n \in 0..9 : Digit(n) = c
DigitValue(c) == CHOOSE n \in 0..9 : Digit(n) = c
RECURSIVE ParseInt(_)
ParseInt(s) == IF s = << >> THEN 0
               ELSE 10 * ParseInt(SubSeq(s, 1, Len(s) - 1)) + DigitValue(s[Len(s)])
\* the characters after the last '-' of a reservation id
SeqField(id) ==
    LET dash == CHOOSE i \in DOMAIN id :
                   id[i] = "-" /\ \A j \in DOMAIN id : j > i => id[j] # "-"
    IN SubSeq(id, dash + 1, Len(id))
SeqOf(e) == ParseInt(SeqField(e.res.reservation_id))

\* C16: the sequence number in the id of a new reservation is greater than
\* that of every reservation created before, for whatever book and on
\* whatever date, so no two reservations share a sequence number
C16_SequenceMonotonic ==
    [][/\ Served("create_reservation") =>
            \A b \in BookIds : \A e \in Added(b) : \A x \in AllEntries : SeqOf(e) > SeqOf(x)
       /\ \A b \in BookIds : Cardinality(Added(b)) <= 1]_vars

\* consecutive sequence numbers on two creation dates, in two queues
C16_Witness ==
    \E x, y \in AllEntries :
       /\ SeqOf(y) = SeqOf(x) + 1
       /\ DateOf(x.res.created_at) # DateOf(y.res.created_at)
       /\ x.res.book_id # y.res.book_id

\* C17: createReservation fails with NotFound (404) when the book or the
\* member is not stored, and then creates or changes no queue
C17_ReservationNotFound ==
    [][(/\ Served("create_reservation")
        /\ \/ last'.book_id \notin DOMAIN books
           \/ last'.member_id \notin DOMAIN members)
       => (last'.status = NotFound /\ reservations' = reservations)]_vars

\* C18: every reservation id reads "RES-", eight digits of the creation date
\* without a separator, "-", and at least three digits of sequence number
C18_ReservationIdShape ==
    \A e \in AllEntries :
       LET id == e.res.reservation_id
       IN /\ Len(id) >= 16
          /\ SubSeq(id, 1, 4) = <<"R", "E", "S", "-">>
          /\ \A i \in 5..12 : IsDigit(id[i])
          /\ id[13] = "-"
          /\ \A i \in 14..Len(id) : IsDigit(id[i])

\* C19: every active transaction references a stored member and a stored
\* book, so returnBook never fails on a missing record
C19_ActiveReferencesStored ==
    /\ \A i \in DOMAIN transactions :
          transactions[i].status = "active" =>
             /\ transactions[i].member_id \in DOMAIN members
             /\ transactions[i].book_id \in DOMAIN books
    /\ last.op = "return" => last.status # InternalError

\* a book kept because its deletion was refused while it is on loan
C19_Witness ==
    /\ last.op = "delete_book" /\ last.status = BadRequest
    /\ last.book_id \in DOMAIN books
    /\ \E i \in ActiveOfBook(last.book_id) : transactions[i].member_id \in DOMAIN members

\* C20: only createReservation changes a reservation queue; the other
\* handlers leave every queue, with its stored scores and order, as it was
C20_OnlyReservationChangesQueues ==
    [][reservations' # reservations => Served("create_reservation")]_vars

\* a queued entry kept with its old score after its member returned on time,
\* and after the member was deleted
C20_Witness ==
    /\ last.op = "delete_member" /\ last.status = OK
    /\ \E e \in AllEntries :
          /\ e.res.member_id = last.member_id
          /\ e.res.member_id \notin DOMAIN members
          /\ ~RatEq(e.neg_score, <<0 - calculate_priority_score(e.res.member_id)[1],
                                   calculate_priority_score(e.res.member_id)[2]>>)

\* ---- queue order --------------------------------------------------------
\* no two entries of the queue share score and creation time
DistinctKeys(q) ==
    \A i, j \in DOMAIN q :
       i # j => ~(RatEq(q[i].neg_score, q[j].neg_score)
                  /\ q[i].res.created_at = q[j].res.created_at)

\* C21: in a queue whose (score, creation time) keys are pairwise distinct,
\* the first stored entry is first under (score descending, creation time
\* ascending): no other entry has a higher score, or the same score and an
\* earlier creation time
C21_FirstEntryIsBest ==
    \A b \in DOMAIN reservations :
       LET q == reservations[b]
       IN (q # << >> /\ DistinctKeys(q)) =>
             \A i \in DOMAIN q : ~Before(q[i], q[1])

\* three entries with distinct keys, and the first stored entry is one that
\* was created after another and sifted to the front
C21_Witness ==
    \E b \in DOMAIN reservations :
       LET q == reservations[b]
       IN /\ Len(q) = 3
          /\ DistinctKeys(q)
          /\ \E i \in DOMAIN q : SeqOf(q[i]) < SeqOf(q[1])
          /\ \E i, j \in DOMAIN q : q[i].res.created_at # q[j].res.created_at
====
